---- MODULE Spec2Model ----
(***************************************************************************)
(* A model of extras/python/audio2mozzi.py: one run of float2mozzi(args)   *)
(* from the command line to the written header file.                       *)
(*                                                                         *)
(* Numbers.  A Python number is a record [num, den, isfloat]: the exact    *)
(* rational num/den (den > 0, lowest terms) and whether Python holds it as *)
(* a float.  Every float the model computes is a dyadic rational or a      *)
(* quotient whose exact value decides the properties stated here; the      *)
(* rounding of a double is not modelled.                                   *)
(*                                                                         *)
(* The input file is a sequence of bytes (0..255), decoded little-endian   *)
(* as the array module does on the usual hosts.                            *)
(***************************************************************************)
EXTENDS Integers, Sequences, FiniteSets, TLC

VARIABLES
    args,              \* the parsed (or about to be parsed) command line
    file_bytes,        \* contents of the input file
    pc,                \* position of the run
    fin_state,         \* input file handle: "untouched", "open", "closed"
    fout_state,        \* output file handle: "untouched", "open", "closed"
    num_input_values,  \* line 45
    in_values,         \* line 62
    idx,               \* 1-based position of the for loop of line 80
    cnt_33,            \* line 81
    out_values,        \* line 79
    rand_draws,        \* number of calls of random.choice made by the run
    fout_num_cells,    \* the NUM_CELLS macro values written to fout, in order
    fout_data,         \* the values written in the DATA array, in order
    run,               \* 1 for the first run on the input, 2 for a second one
    prev_output        \* what the first run wrote, kept for the second run

vars == <<args, file_bytes, pc, fin_state, fout_state, num_input_values,
          in_values, idx, cnt_33, out_values, rand_draws, fout_num_cells,
          fout_data, run, prev_output>>

------------------------------------------------------------------------------
(* Bounds of the model. *)

MaxSamples == 5

------------------------------------------------------------------------------
(* Arithmetic helpers. *)

RECURSIVE Pow2(_)
Pow2(n) == IF n = 0 THEN 1 ELSE 2 * Pow2(n - 1)

Abs(x) == IF x < 0 THEN -x ELSE x

Min(a, b) == IF a <= b THEN a ELSE b

RECURSIVE Gcd(_, _)
Gcd(a, b) == IF b = 0 THEN a ELSE Gcd(b, a % b)

\* The Python number num/den, in lowest terms.
Num(n, d, f) ==
    LET g == Gcd(Abs(n), d)
    IN  [num |-> n \div g, den |-> d \div g, isfloat |-> f]

IntNum(n) == [num |-> n, den |-> 1, isfloat |-> FALSE]

\* Python's ==, <= between numbers: by value, whatever the types.
NumEq(a, b) == a.num * b.den = b.num * a.den
NumLe(a, b) == a.num * b.den <= b.num * a.den

\* math.trunc(a / b) for b > 0: toward zero, at line 83.  TruncFloor is
\* the faulty variant that rounds toward minus infinity, as math.floor would.
TruncFloor(a, b) == a \div b
Trunc(a, b) == IF a >= 0 THEN a \div b ELSE -((-a) \div b)

------------------------------------------------------------------------------
(* The command line, lines 115-166. *)

EncodingChoices == {"float", "int"}
BitsChoices == {8, 16, 32}

\* What a user may type: 24 stands for a width argparse does not accept.
TypedBits == BitsChoices \cup {24}

\* max_output_value of line 78.
MaxOutputValue(output_bits) == 2 * Pow2(output_bits - 2)

\* 2 << 30 lies outside TLC's integers: the runs with 32-bit output are
\* those that never use max_output_value (integer encoding, flag off).
Representable(a) ==
    a.output_bits = 32 => (a.input_encoding = "int" /\ ~a.make_symmetrical)

ArgsChoices ==
    {a \in [input_encoding : EncodingChoices, input_bits : TypedBits,
            output_bits : TypedBits, make_symmetrical : BOOLEAN] :
        Representable(a)}

\* argparse's choices= of lines 129 and 136.
Accepted(a) == a.input_bits \in BitsChoices /\ a.output_bits \in BitsChoices

------------------------------------------------------------------------------
(* The decoder, lines 45-62. *)

\* Lines 49-55.
ArrayType(a) ==
    IF a.input_bits = 8 THEN "b"
    ELSE IF a.input_bits = 16 THEN "h"
    ELSE IF a.input_bits = 32
         THEN (IF a.input_encoding = "float" THEN "f" ELSE "i")
    ELSE ""

\* array.array(t).itemsize
ItemSize(t) == IF t = "b" THEN 1 ELSE IF t = "h" THEN 2 ELSE 4

ByteToSigned(b) == IF b >= 128 THEN b - 256 ELSE b

\* IEEE-754 single precision: zero and the normal numbers of magnitude
\* 2^-23 and up (smaller ones, infinities and NaN are not in the input files
\* drawn below).
DecodeFloat(b) ==
    LET sign == IF b[4] >= 128 THEN -1 ELSE 1
        e    == (b[4] % 128) * 2 + (b[3] \div 128)
        m    == (b[3] % 128) * 65536 + b[2] * 256 + b[1]
        sig  == 8388608 + m
    IN  IF e = 0 /\ m = 0 THEN [num |-> 0, den |-> 1, isfloat |-> TRUE]
        ELSE IF e >= 150 THEN Num(sign * sig * Pow2(e - 150), 1, TRUE)
        ELSE Num(sign * sig, Pow2(150 - e), TRUE)

\* One item of the array, from its bytes.
DecodeItem(b, t) ==
    IF t = "b" THEN IntNum(ByteToSigned(b[1]))
    ELSE IF t = "h" THEN IntNum(b[1] + 256 * ByteToSigned(b[2]))
    ELSE IF t = "i" THEN
        IntNum(b[1] + 256 * b[2] + 65536 * b[3] + 16777216 * ByteToSigned(b[4]))
    ELSE DecodeFloat(b)

\* num_input_values of lines 45-47.  NumInputValuesByBits is the faulty
\* variant that divides by the bit width instead of the byte width.
NumInputValuesByBits(size, input_bits) == size \div input_bits
NumInputValues(size, input_bits) == size \div (input_bits \div 8)

\* valuesfromfile.fromfile(fin, n) then tolist(), lines 57-62: n items, or
\* the whole items the file holds when it holds fewer (EOFError is passed).
FromFile(bytes, n, t) ==
    LET k == Min(n, Len(bytes) \div ItemSize(t))
    IN  [j \in 1..k |->
            DecodeItem(SubSeq(bytes, (j - 1) * ItemSize(t) + 1, j * ItemSize(t)), t)]

------------------------------------------------------------------------------
(* The rescaler and the dither pass, lines 78-94. *)

\* Line 82-86: math.trunc(value * max_output_value + 0.5) for float
\* encoding, the value itself otherwise.
Rescale(value, a) ==
    IF a.input_encoding = "float"
    THEN LET m == MaxOutputValue(a.output_bits)
         IN  IntNum(Trunc(2 * value.num * m + value.den, 2 * value.den))
    ELSE value

\* Line 88: value == 33.
Is33(value) == NumEq(value, IntNum(33))

\* Line 81: cnt_33 = 0 is the first statement of the loop body.  CounterKept is
\* the variant that keeps the count of the previous iteration, as an
\* initialisation placed before the loop would.
CounterKept(cnt) == cnt
CounterAtIterationStart(cnt) == 0

\* Line 90: cnt_33 == 3.  DitherOnEvery33 is the faulty variant that
\* dithers every 33.
DitherOnEvery33(cnt) == cnt >= 1
DitherDue(cnt) == cnt = 3

\* Line 91: the tuple random.choice draws from.
RandomChoices == {32, 34}

------------------------------------------------------------------------------
(* The symmetry normaliser, lines 95-102. *)

\* Line 96.
ValueToRemove(a) == -MaxOutputValue(a.output_bits) - 1

\* Line 98: in_min.  InMinWithoutStep is the faulty variant that forgets
\* the extra step below -max.
InMinWithoutStep(a) == -MaxOutputValue(a.output_bits)
InMin(a) == ValueToRemove(a)

\* Line 102, one element: (value - in_min) * (out_max - out_min)
\* / (in_max - in_min) + out_min, a true division, so a float.
Remap(value, a) ==
    LET in_min  == InMin(a)
        in_max  == MaxOutputValue(a.output_bits)
        out_max == MaxOutputValue(a.output_bits)
        out_min == -MaxOutputValue(a.output_bits)
        d       == (in_max - in_min) * value.den
    IN  Num((value.num - in_min * value.den) * (out_max - out_min)
                + out_min * d, d, TRUE)

\* Line 97: value_to_remove in out_values.
Contains(seq, n) == \E j \in 1..Len(seq) : NumEq(seq[j], IntNum(n))

\* Lines 95-102 on the whole list.
Normalised(seq, a) ==
    IF a.make_symmetrical /\ Contains(seq, ValueToRemove(a))
    THEN [j \in 1..Len(seq) |-> Remap(seq[j], a)]
    ELSE seq

------------------------------------------------------------------------------
(* Input files: raw exports in the format the command line declares (module *)
(* docstring, lines 12-23), followed by fewer bytes than one more sample.   *)

\* 33, -5, 10 as signed bytes.
Samples8 == {<<33>>, <<251>>, <<10>>}
\* 33, -129, 1000 as signed shorts.
Samples16 == {<<33, 0>>, <<127, 255>>, <<232, 3>>}
\* 33, -129, 70000 as signed 32-bit integers.
Samples32 == {<<33, 0, 0, 0>>, <<127, 255, 255, 255>>, <<112, 17, 1, 0>>}
\* 1.0, -1.0, -259/256 as 32-bit floats.
SamplesFloat == {<<0, 0, 128, 63>>, <<0, 0, 128, 191>>, <<0, 128, 129, 191>>}

SampleBytes(t) ==
    IF t = "h" THEN Samples16
    ELSE IF t = "i" THEN Samples32
    ELSE IF t = "f" THEN SamplesFloat
    ELSE Samples8

RECURSIVE Flatten(_)
Flatten(ss) == IF ss = <<>> THEN <<>> ELSE Head(ss) \o Flatten(Tail(ss))

FileChoices(a) ==
    LET t == ArrayType(a)
    IN  { Flatten(ss) \o [j \in 1..r |-> 7] :
            ss \in UNION {[1..n -> SampleBytes(t)] : n \in 0..MaxSamples},
            r \in 0..(ItemSize(t) - 1) }

------------------------------------------------------------------------------
(* The run. *)

Init ==
    /\ args \in ArgsChoices
    /\ file_bytes \in FileChoices(args)
    /\ pc = "start"
    /\ fin_state = "untouched"
    /\ fout_state = "untouched"
    /\ num_input_values = 0
    /\ in_values = <<>>
    /\ idx = 1
    /\ cnt_33 = 0
    /\ out_values = <<>>
    /\ rand_draws = 0
    /\ fout_num_cells = <<>>
    /\ fout_data = <<>>
    /\ run = 1
    /\ prev_output = <<>>

\* Line 166: parse_args() returns the namespace.
ParseArgs ==
    /\ pc = "start"
    /\ Accepted(args)
    /\ pc' = "parsed"
    /\ UNCHANGED <<args, file_bytes, fin_state, fout_state, num_input_values,
                   in_values, idx, cnt_33, out_values, rand_draws,
                   fout_num_cells, fout_data, run, prev_output>>

\* Line 166: parse_args() prints the usage and exits with status 2.
UsageError ==
    /\ pc = "start"
    /\ ~Accepted(args)
    /\ pc' = "usage_error"
    /\ UNCHANGED <<args, file_bytes, fin_state, fout_state, num_input_values,
                   in_values, idx, cnt_33, out_values, rand_draws,
                   fout_num_cells, fout_data, run, prev_output>>

\* Line 43: both files are opened, the output one for writing (truncated).
OpenFiles ==
    /\ pc = "parsed"
    /\ fin_state' = "open"
    /\ fout_state' = "open"
    /\ fout_num_cells' = <<>>
    /\ fout_data' = <<>>
    /\ pc' = "opened"
    /\ UNCHANGED <<args, file_bytes, num_input_values, in_values, idx, cnt_33,
                   out_values, rand_draws, run, prev_output>>

\* Lines 45-62.
ReadInput ==
    /\ pc = "opened"
    /\ num_input_values' = NumInputValues(Len(file_bytes), args.input_bits)
    /\ in_values' = FromFile(file_bytes, num_input_values', ArrayType(args))
    /\ pc' = "decoded"
    /\ UNCHANGED <<args, file_bytes, fin_state, fout_state, idx, cnt_33,
                   out_values, rand_draws, fout_num_cells, fout_data, run,
                   prev_output>>

\* Lines 70-79: the header, with len(in_values) as NUM_CELLS.
WriteHeader ==
    /\ pc = "decoded"
    /\ fout_num_cells' = Append(fout_num_cells, Len(in_values))
    /\ out_values' = <<>>
    /\ idx' = 1
    /\ pc' = "loop"
    /\ UNCHANGED <<args, file_bytes, fin_state, fout_state, num_input_values,
                   in_values, cnt_33, rand_draws, fout_data, run, prev_output>>

\* Lines 80-94: one iteration of the loop.
LoopBody ==
    /\ pc = "loop"
    /\ idx <= Len(in_values)
    /\ \E r \in RandomChoices :
        LET value    == in_values[idx]
            cnt0     == CounterAtIterationStart(cnt_33)
            appended == Append(out_values, Rescale(value, args))
            cnt1     == IF Is33(value) THEN cnt0 + 1 ELSE 0
            dither   == Is33(value) /\ DitherDue(cnt1)
        IN  /\ out_values' = IF dither THEN Append(appended, IntNum(r))
                                       ELSE appended
            /\ cnt_33' = IF dither THEN 0 ELSE cnt1
            /\ rand_draws' = IF dither THEN rand_draws + 1 ELSE rand_draws
    /\ idx' = idx + 1
    /\ UNCHANGED <<args, file_bytes, pc, fin_state, fout_state,
                   num_input_values, in_values, fout_num_cells, fout_data,
                   run, prev_output>>

\* Lines 95-102, after the loop.
Normalise ==
    /\ pc = "loop"
    /\ idx > Len(in_values)
    /\ out_values' = Normalised(out_values, args)
    /\ pc' = "normalised"
    /\ UNCHANGED <<args, file_bytes, fin_state, fout_state, num_input_values,
                   in_values, idx, cnt_33, rand_draws, fout_num_cells,
                   fout_data, run, prev_output>>

\* Lines 104-112: the table is written, str(value) of each value joined by
\* commas, and both files are closed on leaving the with block.
WriteTable ==
    /\ pc = "normalised"
    /\ fout_data' = out_values
    /\ fin_state' = "closed"
    /\ fout_state' = "closed"
    /\ pc' = "done"
    /\ UNCHANGED <<args, file_bytes, num_input_values, in_values, idx, cnt_33,
                   out_values, rand_draws, fout_num_cells, run, prev_output>>

Next ==
    \/ ParseArgs
    \/ UsageError
    \/ OpenFiles
    \/ ReadInput
    \/ WriteHeader
    \/ LoopBody
    \/ Normalise
    \/ WriteTable

Spec == Init /\ [][Next]_vars

\* A second run of the program with the same arguments on the same input.
Rerun ==
    /\ pc = "done"
    /\ run = 1
    /\ run' = 2
    /\ prev_output' = <<fout_num_cells, fout_data>>
    /\ pc' = "start"
    /\ fin_state' = "untouched"
    /\ fout_state' = "untouched"
    /\ num_input_values' = 0
    /\ in_values' = <<>>
    /\ idx' = 1
    /\ cnt_33' = 0
    /\ out_values' = <<>>
    /\ rand_draws' = 0
    /\ UNCHANGED <<args, file_bytes, fout_num_cells, fout_data>>

NextTwice == Next \/ Rerun

SpecTwice == Init /\ [][NextTwice]_vars

------------------------------------------------------------------------------
(* Vocabulary of the properties. *)

\* The number of insertions the dither policy asks for on a list: a running
\* count of consecutive 33s, an insertion and a reset at every third one.
RECURSIVE Insertions(_, _)
Insertions(seq, cnt) ==
    IF seq = <<>> THEN 0
    ELSE IF Is33(Head(seq))
         THEN (IF cnt + 1 = 3 THEN 1 + Insertions(Tail(seq), 0)
                              ELSE Insertions(Tail(seq), cnt + 1))
    ELSE Insertions(Tail(seq), 0)

HasTriple33(seq) ==
    \E j \in 1..(Len(seq) - 2) : Is33(seq[j]) /\ Is33(seq[j + 1]) /\ Is33(seq[j + 2])

\* The signed range of a bit width, written so that 32 bits stay in range.
SignedMax(bits) == (Pow2(bits - 2) - 1) + Pow2(bits - 2)
SignedMin(bits) == -SignedMax(bits) - 1

Within(v, lo, hi) == NumLe(IntNum(lo), v) /\ NumLe(v, IntNum(hi))

IsInteger(v) == v.den = 1

\* r is the integer part of v * m + 1/2, the fraction dropped toward zero.
IsTruncOfScaled(r, v, m) ==
    LET n == 2 * v.num * m + v.den
        d == 2 * v.den
    IN  /\ r.den = 1
        /\ ~r.isfloat
        /\ (r.num > 0 => n > 0)
        /\ (r.num < 0 => n < 0)
        /\ Abs(r.num) * d <= Abs(n)
        /\ Abs(n) < (Abs(r.num) + 1) * d

\* v is the float n / d (d > 0), whatever the terms it is held in.
IsQuotient(v, n, d) ==
    /\ v.isfloat
    /\ d % v.den = 0
    /\ v.num * (d \div v.den) = n

\* The normaliser is about to remap the list.
NormaliserRemaps ==
    /\ pc = "loop"
    /\ pc' = "normalised"
    /\ args.make_symmetrical
    /\ Contains(out_values, -MaxOutputValue(args.output_bits) - 1)

------------------------------------------------------------------------------
(* C1 *)

\* C1: the dither pass appends one element of {32, 34} right after every
\* third consecutive 33 and nothing else, so a completed run emits the
\* decoded samples plus one value per such 33; [33,33,33] gives four
\* values, the fourth 32 or 34, and the 8-bit integer input [10,-5,33,33,33]
\* gives NUM_CELLS 6 and six values ending in 33 and 32 or 34.
DitherInsertsAfterThirdConsecutive33 ==
    pc = "done" =>
        /\ Len(fout_data) = Len(in_values) + Insertions(in_values, 0)
        /\ (Len(in_values) = 3 /\ (\A j \in 1..3 : Is33(in_values[j]))
              /\ args.input_encoding = "int")
            => /\ Len(fout_data) = 4
               /\ Is33(fout_data[3])
               /\ fout_data[4].num \in RandomChoices
        /\ (in_values = <<IntNum(10), IntNum(-5), IntNum(33), IntNum(33), IntNum(33)>>
              /\ args.input_bits = 8 /\ args.input_encoding = "int")
            => /\ fout_num_cells = <<6>>
               /\ Len(fout_data) = 6
               /\ Is33(fout_data[5])
               /\ fout_data[6].num \in RandomChoices

------------------------------------------------------------------------------
(* C2 *)

\* C2: in every completed run the number written as NUM_CELLS is the number
\* of values written in the DATA array.
NumCellsEqualsEmittedCount ==
    pc = "done" => fout_num_cells = <<Len(fout_data)>>

\* A completed run whose input holds three consecutive 33s.
NumCellsWitness ==
    /\ pc = "done"
    /\ HasTriple33(in_values)
    /\ fout_num_cells = <<Len(fout_data)>>

------------------------------------------------------------------------------
(* C3 *)

\* C3: every emitted value lies in the signed range of the output width,
\* for integer input and for float input with samples in [-1, 1].
EmittedValuesFitOutputWidth ==
    (/\ pc = "done"
     /\ args.input_encoding = "float" =>
            /\ args.input_bits = 32
            /\ \A j \in 1..Len(in_values) : Within(in_values[j], -1, 1))
    => \A j \in 1..Len(fout_data) :
          Within(fout_data[j], SignedMin(args.output_bits),
                 SignedMax(args.output_bits))

------------------------------------------------------------------------------
(* C4 *)

\* C4: every emitted value is an integer, with --make-symmetrical too.
EmittedValuesAreIntegers ==
    pc = "done" => \A j \in 1..Len(fout_data) : IsInteger(fout_data[j])

------------------------------------------------------------------------------
(* C5 *)

\* C5: with float encoding declared at 8 or 16 bits, neither file is
\* opened at any point of the run.
InvalidCombinationRejectedBeforeIO ==
    (args.input_encoding = "float" /\ args.input_bits \in {8, 16})
    => (fin_state = "untouched" /\ fout_state = "untouched")

------------------------------------------------------------------------------
(* C6 *)

------------------------------------------------------------------------------
(* C7 *)

\* C7: with float encoding, each iteration appends truncate(value * maxOut
\* + 0.5), truncated toward zero; at 8-bit output 1.0 gives 128 and -1.0
\* gives -127.
FloatRescalerTruncatesTowardZero ==
    [][(pc = "loop" /\ idx' = idx + 1 /\ args.input_encoding = "float") =>
        LET v == in_values[idx]
            r == out_values'[Len(out_values) + 1]
        IN  /\ IsTruncOfScaled(r, v, MaxOutputValue(args.output_bits))
            /\ (args.output_bits = 8 /\ NumEq(v, IntNum(1))) => r = IntNum(128)
            /\ (args.output_bits = 8 /\ NumEq(v, IntNum(-1))) => r = IntNum(-127)
      ]_vars

\* The samples 1.0 and -1.0 of a float file have been rescaled for 8-bit
\* output.
FloatRescalerWitness ==
    /\ pc = "loop"
    /\ args.input_encoding = "float"
    /\ args.input_bits = 32
    /\ args.output_bits = 8
    /\ \E j, k \in 1..Min(idx - 1, Len(out_values)) :
        /\ in_values[j] = [num |-> 1, den |-> 1, isfloat |-> TRUE]
        /\ out_values[j] = IntNum(128)
        /\ in_values[k] = [num |-> -1, den |-> 1, isfloat |-> TRUE]
        /\ out_values[k] = IntNum(-127)

------------------------------------------------------------------------------
(* C8 *)

\* C8: once the input is read, the number of decoded samples is the number
\* of whole samples in the file, n with n * bytes <= length < (n + 1) *
\* bytes where bits = 8 * bytes, and the read was not cut short.
DecodedCountIsFloorOfLength ==
    pc \in {"decoded", "loop", "normalised", "done"} =>
        \E bytes \in 1..4 :
            /\ 8 * bytes = args.input_bits
            /\ Len(in_values) * bytes <= Len(file_bytes)
            /\ Len(file_bytes) < (Len(in_values) + 1) * bytes
            /\ Len(in_values) = num_input_values

\* A file of 32-bit samples with trailing bytes has been decoded.
DecoderWitness ==
    /\ pc = "decoded"
    /\ args.input_bits = 32
    /\ Len(file_bytes) % 4 = 3
    /\ Len(in_values) >= 2

------------------------------------------------------------------------------
(* C9 *)

\* C9: a second run with the same arguments on the same input, with
\* --make-symmetrical off and no three consecutive 33s in the input, makes
\* no random choice and writes what the first run wrote.
SecondRunWritesSameOutput ==
    (/\ run = 2
     /\ pc = "done"
     /\ ~args.make_symmetrical
     /\ ~HasTriple33(in_values))
    => /\ rand_draws = 0
       /\ <<fout_num_cells, fout_data>> = prev_output

\* A second run has completed on an input with 33s but no three in a row.
SecondRunWitness ==
    /\ run = 2
    /\ pc = "done"
    /\ ~args.make_symmetrical
    /\ ~HasTriple33(in_values)
    /\ Len(in_values) >= 3
    /\ Is33(in_values[1])
    /\ Is33(in_values[2])
    /\ prev_output = <<fout_num_cells, fout_data>>

------------------------------------------------------------------------------
(* C10 *)

====
